---- MODULE Spec2Model ----
(***************************************************************************)
(* go-install: the installation session of the Go toolchain installer.     *)
(*                                                                         *)
(* The program is a bubbletea application.  Its state is the model the     *)
(* runtime currently holds (a mainModel, replaced by an installModel when  *)
(* startInstallation returns one), the commands handed to the runtime and  *)
(* not yet finished, the messages waiting for the event loop, and the part *)
(* of the host the commands read and write (the install directory          *)
(* /usr/local/go and the downloaded archive).                              *)
(*                                                                         *)
(* Runtime semantics used throughout: Update returns (model, cmd); the     *)
(* runtime runs every cmd in its own goroutine and posts the message it    *)
(* returns to the event loop; tea.Quit and tea.Batch are commands like     *)
(* any other (they return a QuitMsg / a BatchMsg); the event loop stops    *)
(* when it receives the QuitMsg, and main then returns, which ends every   *)
(* goroutine still running.  Key presses reach the event loop as KeyMsg    *)
(* in any order relative to the messages of running commands.              *)
(***************************************************************************)
EXTENDS Integers, Sequences, FiniteSets, TLC

VARIABLES
    flagVersion, \* main: the value of the --version flag
    model,       \* the tea.Model the program holds (mainModel or installModel)
    running,     \* the event loop has not yet received a QuitMsg
    cmds,        \* commands handed to the runtime, not yet finished
    msgs,        \* messages posted to the event loop, not yet received
    installDir,  \* host: the state of /usr/local/go
    archive,     \* host: the downloaded file in the working directory
    home,        \* host: $SHELL, the home directory and the shell config files in it
    dispatched,  \* history: how often each unit of work was returned by Update/Init
    handled,     \* history: the error carried by each unit's completion event, once handled
    answered,    \* history: the answers handled in a confirmation state
    sel          \* inputs and result of a stand-alone call of a function

vars == <<flagVersion, model, running, cmds, msgs, installDir, archive, home,
          dispatched, handled, answered, sel>>

(***************************************************************************)
(* Strings whose characters matter (versions, hex digests) are sequences   *)
(* of one-character strings.                                               *)
(***************************************************************************)
HasPrefix(s, p) == Len(s) >= Len(p) /\ SubSeq(s, 1, Len(p)) = p

Nil == "nil"

(***************************************************************************)
(* package common                                                          *)
(***************************************************************************)
NormalizeVersionAlways(v) ==
    IF v = <<>> THEN <<>> ELSE <<"g", "o">> \o v

NormalizeVersion(v) ==
    IF v = <<>> THEN <<>>
    ELSE IF ~HasPrefix(v, <<"g", "o">>) THEN <<"g", "o">> \o v
    ELSE v

GetOS == "linux"
GetArch == "amd64"

GoRelease(version, files) == [Version |-> version, Files |-> files]

EmptyRelease == GoRelease(<<>>, <<>>)

ErrVersionNotFound == "version not found"
ErrNoArchive == "version exists but no archive"

fileMatchesAnyKind(f, goos, arch) == f.OS = goos /\ f.Arch = arch

fileMatches(f, goos, arch) == f.Kind = "archive" /\ f.OS = goos /\ f.Arch = arch

\* the inner loop of FindBuild: the files of one release, from index k on
RECURSIVE scanFiles(_, _, _, _, _)
scanFiles(r, k, ver, goos, arch) ==
    IF k > Len(r.Files)
    THEN [r |-> r, filename |-> "", sha256 |-> <<>>, err |-> ErrNoArchive]
    ELSE IF fileMatches(r.Files[k], goos, arch)
    THEN [r |-> r, filename |-> r.Files[k].Filename,
          sha256 |-> r.Files[k].Sha256, err |-> Nil]
    ELSE scanFiles(r, k + 1, ver, goos, arch)

\* the outer loop of FindBuild: the releases, from index k on
RECURSIVE scanReleases(_, _, _, _, _)
scanReleases(all, k, ver, goos, arch) ==
    IF k > Len(all)
    THEN [r |-> EmptyRelease, filename |-> "", sha256 |-> <<>>,
          err |-> ErrVersionNotFound]
    ELSE IF all[k].Version # ver
    THEN scanReleases(all, k + 1, ver, goos, arch)
    ELSE scanFiles(all[k], 1, ver, goos, arch)

FindBuild(all, ver, goos, arch) == scanReleases(all, 1, ver, goos, arch)


(***************************************************************************)
(* Dependencies (sysDepedencies.go, first file)                            *)
(***************************************************************************)
DistroNames == {"debian", "ubuntu", "fedora", "rhel", "arch", "alpine"}

dependency(name, packageName, required) ==
    [name |-> name, packageName |-> packageName, required |-> required]

\* packageName maps a distro name to the fields of its package string
requiredDeps == <<
    dependency("CA Certificates",
               [d \in DistroNames |-> {"ca-certificates"}], TRUE),
    dependency("GCC",
               [d \in DistroNames |->
                   CASE d \in {"debian", "ubuntu"} -> {"build-essential"}
                     [] d \in {"fedora", "rhel"} -> {"gcc", "gcc-c++", "make"}
                     [] d = "arch" -> {"base-devel"}
                     [] OTHER -> {"build-base"}], TRUE),
    dependency("Make",
               [d \in DistroNames |->
                   CASE d \in {"debian", "ubuntu"} -> {"build-essential"}
                     [] d \in {"fedora", "rhel"} -> {"make"}
                     [] d = "arch" -> {"base-devel"}
                     [] OTHER -> {"build-base"}], TRUE),
    dependency("Git", [d \in DistroNames |-> {"git"}], FALSE) >>

distroInfo(name, packageManager, installCmd, updateCmd) ==
    [name |-> name, packageManager |-> packageManager,
     installCmd |-> installCmd, updateCmd |-> updateCmd]

NoDistro == distroInfo("", "", "", "")

detectDistroAssumeApk(path, lsb) ==
    IF "apt-get" \in path
    THEN distroInfo(IF lsb = "" THEN "debian" ELSE lsb,
                    "apt-get", "apt-get install -y", "apt-get update")
    ELSE IF "dnf" \in path
    THEN distroInfo("fedora", "dnf", "dnf install -y", "dnf check-update")
    ELSE IF "yum" \in path
    THEN distroInfo("rhel", "yum", "yum install -y", "yum check-update")
    ELSE IF "pacman" \in path
    THEN distroInfo("arch", "pacman", "pacman -S --noconfirm", "pacman -Sy")
    ELSE distroInfo("alpine", "apk", "apk add", "apk update")

\* path: the executables exec.LookPath finds; lsb: the trimmed, lower-cased
\* output of lsb_release -is ("" when the command fails or prints nothing)
detectDistro(path, lsb) ==
    IF "apt-get" \in path
    THEN distroInfo(IF lsb = "" THEN "debian" ELSE lsb,
                    "apt-get", "apt-get install -y", "apt-get update")
    ELSE IF "dnf" \in path
    THEN distroInfo("fedora", "dnf", "dnf install -y", "dnf check-update")
    ELSE IF "yum" \in path
    THEN distroInfo("rhel", "yum", "yum install -y", "yum check-update")
    ELSE IF "pacman" \in path
    THEN distroInfo("arch", "pacman", "pacman -S --noconfirm", "pacman -Sy")
    ELSE IF "apk" \in path
    THEN distroInfo("alpine", "apk", "apk add", "apk update")
    ELSE distroInfo("unknown", "unknown", "", "")

ErrNoPackageManager == "unable to detect package manager"

SelectDeps(deps, absent) ==
    LET Missing(dep) == dep.name \in absent IN SelectSeq(deps, Missing)

\* absent: the names of the dependencies whose checkCmd fails on the host
checkDependencies(path, lsb, absent) ==
    LET distro == detectDistro(path, lsb) IN
    IF distro.packageManager = "unknown"
    THEN [type |-> "depsCheckMsg", missing |-> <<>>, distro |-> NoDistro,
          err |-> ErrNoPackageManager]
    ELSE [type |-> "depsCheckMsg", missing |-> SelectDeps(requiredDeps, absent),
          distro |-> distro, err |-> Nil]

\* the unique package names installDependencies passes to the install command
packages(distro, deps) ==
    UNION { IF distro.name \in DOMAIN deps[i].packageName
            THEN deps[i].packageName[distro.name] ELSE {} : i \in 1..Len(deps) }

\* a command run on the host and whether it exited with status zero
Exec(cmd, args, ok) == [cmd |-> cmd, args |-> args, ok |-> ok]

ErrInstall == "failed to install packages"

installDependenciesUpdateFatal(distro, deps, updateOK, installOK) ==
    IF distro.updateCmd # "" /\ ~updateOK
    THEN [type |-> "depsInstallMsg", err |-> ErrInstall,
          ran |-> <<Exec(distro.updateCmd, {}, updateOK)>>]
    ELSE [type |-> "depsInstallMsg",
          err |-> IF installOK THEN Nil ELSE ErrInstall,
          ran |-> <<Exec(distro.installCmd, packages(distro, deps), installOK)>>]

\* updateOK, installOK: the update and the install command exit with status
\* zero.  ran is not a field of depsInstallMsg: it records the commands the
\* closure has run, in order.
installDependencies(distro, deps, updateOK, installOK) ==
    LET update == IF distro.updateCmd # ""
                  THEN <<Exec(distro.updateCmd, {}, updateOK)>> ELSE <<>>
        install == Exec(distro.installCmd, packages(distro, deps), installOK)
    IN [type |-> "depsInstallMsg",
        err |-> IF installOK THEN Nil ELSE ErrInstall,
        ran |-> update \o <<install>>]

(***************************************************************************)
(* Host operations of the pipeline (sysDepedencies.go, second file)        *)
(***************************************************************************)
NoFile == [name |-> "", sum |-> <<>>]

hextable == <<"0", "1", "2", "3", "4", "5", "6", "7",
              "8", "9", "a", "b", "c", "d", "e", "f">>

\* hex.EncodeToString: two lower-case hex digits per byte
EncodeToString(bytes) ==
    [i \in 1..(2 * Len(bytes)) |->
        IF i % 2 = 1 THEN hextable[(bytes[(i + 1) \div 2] \div 16) + 1]
                     ELSE hextable[(bytes[i \div 2] % 16) + 1]]

ErrShaMismatch == "sha mismatch"
ErrOpen == "open: no such file"

verifyChecksumNoCompare(file, name, want) ==
    IF file = NoFile \/ file.name # name THEN ErrOpen ELSE Nil

\* file: the file of that name in the working directory (NoFile: none);
\* file.sum: the bytes of the SHA-256 sum of its content
verifyChecksum(file, name, want) ==
    IF file = NoFile \/ file.name # name THEN ErrOpen
    ELSE LET got == EncodeToString(file.sum) IN
         IF got # want THEN ErrShaMismatch ELSE Nil

\* A shell config file is a sequence of lines; NoConfig: the file does not
\* exist.  mode: "rw", "ro" (it cannot be opened for appending) or
\* "unreadable" (os.ReadFile fails).
NoConfig == [mode |-> "absent", content |-> <<>>]

ConfigFile(mode, content) == [mode |-> mode, content |-> content]

ConfigNames == {".zshrc", ".bashrc", ".bash_profile"}

goPath == "export PATH=$PATH:/usr/local/go/bin"
goPathComment == "# Added by go-install"

\* a line a user wrote that names the directory, and one that does not
userGoPath == "PATH=/usr/local/go/bin:$PATH"
userLine == "alias ll='ls -l'"

ContainsGoBinNever(content) == FALSE

\* strings.Contains(string(content), "/usr/local/go/bin")
ContainsGoBin(content) ==
    \E i \in 1..Len(content) : content[i] \in {goPath, userGoPath}

\* the lines "\n%s\n%s\n" adds to a file: it ends the last line, then the
\* comment and the export line
appended == <<"", goPathComment, goPath>>

ErrNoHome == "$HOME is not defined"
ErrNoConfig == "could not find shell config file to update"

\* the candidate list, from $SHELL
configFiles(shell) ==
    IF shell = "zsh" THEN <<".zshrc">>
    ELSE IF shell = "bash" THEN <<".bashrc", ".bash_profile">>
    ELSE <<".bashrc">>

\* the loop of setupEnvironment over the candidates, from index k on.
\* short[name]: how many of the three lines WriteString puts into that file
\* (fewer than three: it returns an error after a partial write)
RECURSIVE scanConfigs(_, _, _, _)
scanConfigs(cands, k, files, short) ==
    IF k > Len(cands) THEN [err |-> ErrNoConfig, files |-> files]
    ELSE LET name == cands[k]
             f == files[name]
             written == [files EXCEPT ![name].content =
                            f.content \o SubSeq(appended, 1, short[name])]
         IN
         IF f = NoConfig THEN scanConfigs(cands, k + 1, files, short)
         ELSE IF f.mode = "unreadable" THEN scanConfigs(cands, k + 1, files, short)
         ELSE IF ContainsGoBin(f.content) THEN [err |-> Nil, files |-> files]
         ELSE IF f.mode = "ro" THEN scanConfigs(cands, k + 1, files, short)
         ELSE IF short[name] < Len(appended)
         THEN scanConfigs(cands, k + 1, written, short)
         ELSE [err |-> Nil, files |-> written]

\* h: the host ($SHELL, the home directory, its config files)
setupEnvironment(h, short) ==
    IF h.dir = "" THEN [err |-> ErrNoHome, files |-> h.files]
    ELSE scanConfigs(configFiles(h.shell), 1, h.files, short)


(***************************************************************************)
(* Commands (tea.Cmd).  A step command is a closure over the model value   *)
(* it was made from; m is that captured copy.                              *)
(***************************************************************************)
NoCmd == [cmd |-> "nil"]
Quit == [cmd |-> "Quit"]
Tick(id) == [cmd |-> "Tick", id |-> id]
Batch(cs) == [cmd |-> "Batch", cmds |-> cs]
checkDependenciesCmd == [cmd |-> "checkDependencies"]
installDependenciesCmd(distro, deps) ==
    [cmd |-> "installDependencies", distro |-> distro, deps |-> deps]
fetchReleasesCmd == [cmd |-> "fetchReleases"]
stepDownload(m) == [cmd |-> "stepDownload", m |-> m]
stepVerify(m) == [cmd |-> "stepVerify", m |-> m]
stepRemove(m) == [cmd |-> "stepRemove", m |-> m]
stepExtract(m) == [cmd |-> "stepExtract", m |-> m]
stepConfigure(m) == [cmd |-> "stepConfigure", m |-> m]

\* spinner.Model.Update: a tick of another spinner is dropped, a tick of this
\* one schedules the next
spinnerUpdate(id, msg) == IF msg.id = id THEN Tick(id) ELSE NoCmd

(***************************************************************************)
(* installModel                                                            *)
(***************************************************************************)
installStates == {"installStateDownloading", "installStateVerifying",
                  "installStateRemoving", "installStateExtracting",
                  "installStateConfiguring", "installStateDone",
                  "installStateError"}

newInstallModel(version, targetOS, targetArch, releases) ==
    [type |-> "installModel", state |-> "installStateDownloading",
     spinner |-> "installSpinner", version |-> version,
     targetOS |-> targetOS, targetArch |-> targetArch,
     releases |-> releases, err |-> Nil, filename |-> "", sha256 |-> <<>>]

installModel_Init(m) == Batch({Tick(m.spinner), stepDownload(m)})

\* the shape shared by the failure branch of every step outcome
installFail(m, msg) ==
    [m |-> [m EXCEPT !.err = msg.err, !.state = "installStateError"],
     cmd |-> Quit]

installUpdate_KeyMsg(m, msg) ==
    IF msg.key \in {"ctrl+c", "q"} THEN [m |-> m, cmd |-> Quit]
    ELSE [m |-> m, cmd |-> NoCmd]

installUpdate_downloadedMsgNoVerify(m, msg) ==
    IF msg.err # Nil THEN installFail(m, msg)
    ELSE LET n == [m EXCEPT !.filename = msg.filename,
                            !.sha256 = msg.sha256,
                            !.state = "installStateRemoving"]
         IN [m |-> n, cmd |-> stepRemove(n)]

installUpdate_downloadedMsgNameOnly(m, msg) ==
    IF msg.err # Nil THEN installFail(m, msg)
    ELSE LET n == [m EXCEPT !.filename = msg.filename,
                            !.state = "installStateVerifying"]
         IN [m |-> n, cmd |-> stepVerify(n)]

installUpdate_downloadedMsgExtract(m, msg) ==
    IF msg.err # Nil THEN installFail(m, msg)
    ELSE LET n == [m EXCEPT !.filename = msg.filename,
                            !.sha256 = msg.sha256,
                            !.state = "installStateExtracting"]
         IN [m |-> n, cmd |-> stepExtract(n)]

installUpdate_downloadedMsg(m, msg) ==
    IF msg.err # Nil THEN installFail(m, msg)
    ELSE LET n == [m EXCEPT !.filename = msg.filename,
                            !.sha256 = msg.sha256,
                            !.state = "installStateVerifying"]
         IN [m |-> n, cmd |-> stepVerify(n)]

installUpdate_verifiedMsgNoCheck(m, msg) ==
    LET n == [m EXCEPT !.state = "installStateRemoving"]
    IN [m |-> n, cmd |-> stepRemove(n)]

installUpdate_verifiedMsgBoth(m, msg) ==
    IF msg.err # Nil THEN installFail(m, msg)
    ELSE LET n == [m EXCEPT !.state = "installStateRemoving"]
         IN [m |-> n, cmd |-> Batch({stepRemove(n), stepExtract(n)})]

installUpdate_verifiedMsg(m, msg) ==
    IF msg.err # Nil THEN installFail(m, msg)
    ELSE LET n == [m EXCEPT !.state = "installStateRemoving"]
         IN [m |-> n, cmd |-> stepRemove(n)]

installUpdate_removedMsgNoCheck(m, msg) ==
    LET n == [m EXCEPT !.state = "installStateExtracting"]
    IN [m |-> n, cmd |-> stepExtract(n)]

installUpdate_removedMsg(m, msg) ==
    IF msg.err # Nil THEN installFail(m, msg)
    ELSE LET n == [m EXCEPT !.state = "installStateExtracting"]
         IN [m |-> n, cmd |-> stepExtract(n)]

installUpdate_extractedMsgSkip(m, msg) ==
    IF msg.err # Nil THEN installFail(m, msg)
    ELSE [m |-> [m EXCEPT !.state = "installStateDone"], cmd |-> Quit]

installUpdate_extractedMsgStall(m, msg) ==
    IF msg.err # Nil THEN installFail(m, msg)
    ELSE [m |-> [m EXCEPT !.state = "installStateConfiguring"], cmd |-> NoCmd]

installUpdate_extractedMsg(m, msg) ==
    IF msg.err # Nil THEN installFail(m, msg)
    ELSE LET n == [m EXCEPT !.state = "installStateConfiguring"]
         IN [m |-> n, cmd |-> stepConfigure(n)]

installUpdate_configuredMsg(m, msg) ==
    IF msg.err # Nil THEN installFail(m, msg)
    ELSE [m |-> [m EXCEPT !.state = "installStateDone"], cmd |-> Quit]

installUpdate_TickMsg(m, msg) ==
    IF m.state \in {"installStateDone", "installStateError"}
    THEN [m |-> m, cmd |-> NoCmd]
    ELSE [m |-> m, cmd |-> spinnerUpdate(m.spinner, msg)]

installModel_Update(m, msg) ==
    CASE msg.type = "KeyMsg" -> installUpdate_KeyMsg(m, msg)
      [] msg.type = "downloadedMsg" -> installUpdate_downloadedMsg(m, msg)
      [] msg.type = "verifiedMsg" -> installUpdate_verifiedMsg(m, msg)
      [] msg.type = "removedMsg" -> installUpdate_removedMsg(m, msg)
      [] msg.type = "extractedMsg" -> installUpdate_extractedMsg(m, msg)
      [] msg.type = "configuredMsg" -> installUpdate_configuredMsg(m, msg)
      [] msg.type = "TickMsg" -> installUpdate_TickMsg(m, msg)
      [] OTHER -> [m |-> m, cmd |-> NoCmd]


(***************************************************************************)
(* mainModel (the orchestrator)                                            *)
(***************************************************************************)
mainStates == {"mainStateCheckingDeps", "mainStateConfirmInstallDeps",
               "mainStateInstallingDeps", "mainStateFetching",
               "mainStateSelectVersion", "mainStateConfirmOverride",
               "mainStateInstalling", "mainStateDone", "mainStateError"}

\* list.Model: the items' titles and the cursor (1-based)
NoList == [items |-> <<>>, cursor |-> 1]

listNew(items) == [items |-> items, cursor |-> 1]

\* list.Model.SelectedItem: ok is false when no item is under the cursor
listSelectedOk(l) == l.cursor \in 1..Len(l.items)

\* list.Model.Update: the cursor keys move the cursor inside the list;
\* filtering only narrows the items the cursor can reach
listUpdate(l, msg) ==
    IF msg.type # "KeyMsg" THEN l
    ELSE IF msg.key = "down" /\ l.cursor < Len(l.items)
    THEN [l EXCEPT !.cursor = l.cursor + 1]
    ELSE IF msg.key = "up" /\ l.cursor > 1
    THEN [l EXCEPT !.cursor = l.cursor - 1]
    ELSE l

NewMainModelRaw(version) ==
    [type |-> "mainModel", state |-> "mainStateCheckingDeps",
     releases |-> <<>>, list |-> NoList, spinner |-> "mainSpinner",
     selectedVer |-> version,
     targetOS |-> GetOS, targetArch |-> GetArch, err |-> Nil,
     missingDeps |-> <<>>, distro |-> NoDistro]

NewMainModel(version) ==
    [type |-> "mainModel", state |-> "mainStateCheckingDeps",
     releases |-> <<>>, list |-> NoList, spinner |-> "mainSpinner",
     selectedVer |-> NormalizeVersion(version),
     targetOS |-> GetOS, targetArch |-> GetArch, err |-> Nil,
     missingDeps |-> <<>>, distro |-> NoDistro]

mainModel_Init(m) == Batch({Tick(m.spinner), checkDependenciesCmd})

\* m.state = mainStateInstalling is set on a copy that is dropped: the model
\* returned to the runtime is the installModel
startInstallation(m) ==
    LET installMod == newInstallModel(m.selectedVer, m.targetOS,
                                      m.targetArch, m.releases)
    IN [m |-> installMod, cmd |-> installModel_Init(installMod)]

\* the code after the switch on the message type
mainUpdate_rest(m, msg) ==
    IF m.state = "mainStateSelectVersion"
    THEN [m |-> [m EXCEPT !.list = listUpdate(m.list, msg)], cmd |-> NoCmd]
    ELSE [m |-> m, cmd |-> NoCmd]

mainKey_ConfirmInstallDepsDeclineGoesOn(m, msg) ==
    IF msg.key \in {"y", "Y"}
    THEN [m |-> [m EXCEPT !.state = "mainStateInstallingDeps"],
          cmd |-> Batch({Tick(m.spinner),
                         installDependenciesCmd(m.distro, m.missingDeps)})]
    ELSE IF msg.key \in {"n", "N"}
    THEN IF \E i \in 1..Len(m.missingDeps) : m.missingDeps[i].required
         THEN [m |-> [m EXCEPT !.state = "mainStateError",
                               !.err = "dependencies are required for Go installation"],
               cmd |-> Quit]
         ELSE [m |-> [m EXCEPT !.state = "mainStateFetching"],
               cmd |-> Batch({Tick(m.spinner), fetchReleasesCmd})]
    ELSE IF msg.key \in {"q", "ctrl+c"}
    THEN [m |-> m, cmd |-> Quit]
    ELSE [m |-> m, cmd |-> NoCmd]

mainKey_ConfirmInstallDeps(m, msg) ==
    IF msg.key \in {"y", "Y"}
    THEN [m |-> [m EXCEPT !.state = "mainStateInstallingDeps"],
          cmd |-> Batch({Tick(m.spinner),
                         installDependenciesCmd(m.distro, m.missingDeps)})]
    ELSE IF msg.key \in {"n", "N"}
    THEN [m |-> [m EXCEPT !.state = "mainStateError",
                          !.err = "dependencies are required for Go installation"],
          cmd |-> Quit]
    ELSE IF msg.key \in {"q", "ctrl+c"}
    THEN [m |-> m, cmd |-> Quit]
    ELSE mainUpdate_rest(m, msg)

\* exists: os.Stat("/usr/local/go") returns no error
settleVersionNoConfirm(m, exists) == startInstallation(m)

\* the version is settled: ask before overriding an existing installation
settleVersion(m, exists) ==
    IF exists
    THEN [m |-> [m EXCEPT !.state = "mainStateConfirmOverride"], cmd |-> NoCmd]
    ELSE startInstallation(m)

mainKey_SelectVersion(m, msg, exists) ==
    IF msg.key \in {"ctrl+c", "q"}
    THEN [m |-> m, cmd |-> Quit]
    ELSE IF msg.key = "enter" /\ listSelectedOk(m.list)
    THEN settleVersion([m EXCEPT !.selectedVer = m.list.items[m.list.cursor]],
                       exists)
    ELSE mainUpdate_rest(m, msg)

mainKey_ConfirmOverride(m, msg) ==
    IF msg.key \in {"y", "Y"}
    THEN startInstallation(m)
    ELSE IF msg.key \in {"n", "N", "q", "ctrl+c"}
    THEN [m |-> m, cmd |-> Quit]
    ELSE mainUpdate_rest(m, msg)

mainUpdate_KeyMsgQuitAnywhere(m, msg, exists) ==
    CASE m.state = "mainStateConfirmInstallDeps" -> mainKey_ConfirmInstallDeps(m, msg)
      [] m.state = "mainStateSelectVersion" -> mainKey_SelectVersion(m, msg, exists)
      [] m.state = "mainStateConfirmOverride" -> mainKey_ConfirmOverride(m, msg)
      [] OTHER -> IF msg.key \in {"q", "ctrl+c"} THEN [m |-> m, cmd |-> Quit]
                  ELSE mainUpdate_rest(m, msg)

mainUpdate_KeyMsg(m, msg, exists) ==
    CASE m.state = "mainStateConfirmInstallDeps" -> mainKey_ConfirmInstallDeps(m, msg)
      [] m.state = "mainStateSelectVersion" -> mainKey_SelectVersion(m, msg, exists)
      [] m.state = "mainStateConfirmOverride" -> mainKey_ConfirmOverride(m, msg)
      [] OTHER -> mainUpdate_rest(m, msg)

mainFailNoQuit(m, msg) ==
    [m |-> [m EXCEPT !.err = msg.err, !.state = "mainStateError"], cmd |-> NoCmd]

mainFail(m, msg) ==
    [m |-> [m EXCEPT !.err = msg.err, !.state = "mainStateError"], cmd |-> Quit]

mainFetch(m) ==
    [m |-> [m EXCEPT !.state = "mainStateFetching"],
     cmd |-> Batch({Tick(m.spinner), fetchReleasesCmd})]

mainUpdate_depsCheckMsgNoConfirm(m, msg) ==
    IF msg.err # Nil THEN mainFail(m, msg)
    ELSE LET n == [m EXCEPT !.distro = msg.distro] IN
         IF Len(msg.missing) = 0 THEN mainFetch(n)
         ELSE [m |-> [n EXCEPT !.missingDeps = msg.missing,
                               !.state = "mainStateInstallingDeps"],
               cmd |-> Batch({Tick(m.spinner),
                              installDependenciesCmd(msg.distro, msg.missing)})]

mainUpdate_depsCheckMsg(m, msg) ==
    IF msg.err # Nil THEN mainFail(m, msg)
    ELSE LET n == [m EXCEPT !.distro = msg.distro] IN
         IF Len(msg.missing) = 0 THEN mainFetch(n)
         ELSE [m |-> [n EXCEPT !.missingDeps = msg.missing,
                               !.state = "mainStateConfirmInstallDeps"],
               cmd |-> NoCmd]

mainUpdate_depsInstallMsg(m, msg) ==
    IF msg.err # Nil THEN mainFail(m, msg) ELSE mainFetch(m)

releaseTitles(releases) == [i \in 1..Len(releases) |-> releases[i].Version]

mainUpdate_fetchedMsgRetry(m, msg, exists) ==
    IF msg.err # Nil THEN mainFetch(m)
    ELSE LET n == [m EXCEPT !.releases = msg.releases] IN
         IF n.selectedVer # <<>>
            /\ FindBuild(n.releases, n.selectedVer, n.targetOS, n.targetArch).err = Nil
         THEN settleVersion(n, exists)
         ELSE [m |-> [n EXCEPT !.list = listNew(releaseTitles(n.releases)),
                               !.state = "mainStateSelectVersion"],
               cmd |-> NoCmd]

mainUpdate_fetchedMsgPickLatest(m, msg, exists) ==
    IF msg.err # Nil THEN mainFail(m, msg)
    ELSE LET n == [m EXCEPT !.releases = msg.releases] IN
         IF n.selectedVer # <<>>
            /\ FindBuild(n.releases, n.selectedVer, n.targetOS, n.targetArch).err = Nil
         THEN settleVersion(n, exists)
         ELSE IF n.selectedVer = <<>> /\ Len(n.releases) > 0
         THEN settleVersion([n EXCEPT !.selectedVer = n.releases[1].Version], exists)
         ELSE [m |-> [n EXCEPT !.list = listNew(releaseTitles(n.releases)),
                               !.state = "mainStateSelectVersion"],
               cmd |-> NoCmd]

mainUpdate_fetchedMsgFailFatal(m, msg, exists) ==
    IF msg.err # Nil THEN mainFail(m, msg)
    ELSE LET n == [m EXCEPT !.releases = msg.releases]
             b == FindBuild(n.releases, n.selectedVer, n.targetOS, n.targetArch)
         IN
         IF n.selectedVer # <<>> /\ b.err = Nil
         THEN settleVersion(n, exists)
         ELSE IF n.selectedVer # <<>>
         THEN mainFail(n, [err |-> b.err])
         ELSE [m |-> [n EXCEPT !.list = listNew(releaseTitles(n.releases)),
                               !.state = "mainStateSelectVersion"],
               cmd |-> NoCmd]

mainUpdate_fetchedMsg(m, msg, exists) ==
    IF msg.err # Nil THEN mainFail(m, msg)
    ELSE LET n == [m EXCEPT !.releases = msg.releases] IN
         IF n.selectedVer # <<>>
            /\ FindBuild(n.releases, n.selectedVer, n.targetOS, n.targetArch).err = Nil
         THEN settleVersion(n, exists)
         ELSE [m |-> [n EXCEPT !.list = listNew(releaseTitles(n.releases)),
                               !.state = "mainStateSelectVersion"],
               cmd |-> NoCmd]

mainUpdate_installCompleteMsg(m, msg) ==
    IF msg.err # Nil
    THEN mainFail(m, msg)
    ELSE [m |-> [m EXCEPT !.state = "mainStateDone"], cmd |-> Quit]

mainUpdate_TickMsg(m, msg) ==
    IF m.state \in {"mainStateCheckingDeps", "mainStateInstallingDeps",
                    "mainStateFetching"}
    THEN [m |-> m, cmd |-> spinnerUpdate(m.spinner, msg)]
    ELSE mainUpdate_rest(m, msg)

mainModel_Update(m, msg, exists) ==
    CASE msg.type = "KeyMsg" -> mainUpdate_KeyMsg(m, msg, exists)
      [] msg.type = "depsCheckMsg" -> mainUpdate_depsCheckMsg(m, msg)
      [] msg.type = "depsInstallMsg" -> mainUpdate_depsInstallMsg(m, msg)
      [] msg.type = "fetchedMsg" -> mainUpdate_fetchedMsg(m, msg, exists)
      [] msg.type = "installCompleteMsg" -> mainUpdate_installCompleteMsg(m, msg)
      [] msg.type = "TickMsg" -> mainUpdate_TickMsg(m, msg)
      [] OTHER -> mainUpdate_rest(m, msg)


(***************************************************************************)
(* View: what the terminal shows.  text is the fixed wording, err the      *)
(* error printed with %v, detail what else is filled in.                   *)
(***************************************************************************)
Screen(text, err, detail) == [text |-> text, err |-> err, detail |-> detail]

\* fmt.Sprintf with a %s verb and no operand prints %!s(MISSING)
MissingOperand == <<"%!s(MISSING)">>

installModel_View(m) ==
    CASE m.state = "installStateError" -> Screen("Error: ", m.err, <<>>)
      [] m.state = "installStateDone" ->
             Screen("Successfully installed to /usr/local/go", Nil, MissingOperand)
      [] m.state = "installStateDownloading" ->
             Screen("Downloading Go archive...", Nil, <<>>)
      [] m.state = "installStateVerifying" ->
             Screen("Verifying checksum...", Nil, <<>>)
      [] m.state = "installStateRemoving" ->
             Screen("Removing old installation...", Nil, <<>>)
      [] m.state = "installStateExtracting" ->
             Screen("Extracting archive...", Nil, <<>>)
      [] m.state = "installStateConfiguring" ->
             Screen("Configuring environment...", Nil, <<>>)
      [] OTHER -> Screen("Installing...", Nil, <<>>)

mainModel_View(m) ==
    CASE m.state = "mainStateCheckingDeps" ->
             Screen("Checking system dependencies...", Nil, <<>>)
      [] m.state = "mainStateConfirmInstallDeps" ->
             Screen("Install dependencies now? (y/n): ", Nil,
                    [i \in 1..Len(m.missingDeps) |-> m.missingDeps[i].name])
      [] m.state = "mainStateInstallingDeps" ->
             Screen("Installing dependencies...", Nil, <<>>)
      [] m.state = "mainStateFetching" ->
             Screen("Fetching Go releases metadata...", Nil, <<>>)
      [] m.state = "mainStateSelectVersion" ->
             Screen("Select Go Version", Nil, m.list.items)
      [] m.state = "mainStateConfirmOverride" ->
             Screen("/usr/local/go already exists. Override? (y/n): ", Nil, <<>>)
      [] m.state = "mainStateInstalling" -> Screen("", Nil, <<>>)
      [] m.state = "mainStateError" -> Screen("Error: ", m.err, <<>>)
      [] m.state = "mainStateDone" ->
             Screen("Successfully installed to /usr/local/go", Nil, m.selectedVer)
      [] OTHER -> Screen("", Nil, <<>>)

View(m) ==
    IF m.type = "mainModel" THEN mainModel_View(m) ELSE installModel_View(m)


(***************************************************************************)
(* Inputs: what the host, the network and the user can supply              *)
(***************************************************************************)
MaxReleases == 2

Ver1 == <<"g", "o", "1">>
Ver2 == <<"g", "o", "2">>
Ver3 == <<"g", "o", "3">>

\* the values of the --version flag: none, bare, prefixed (either can be
\* missing from the catalog fetched)
FlagVersions == {<<>>, <<"1">>, Ver2}

File(filename, os, arch, kind, sha256) ==
    [Filename |-> filename, OS |-> os, Arch |-> arch, Kind |-> kind,
     Sha256 |-> sha256]

fInstaller == File("go1.linux-amd64.pkg", "linux", "amd64", "installer", <<"a", "b">>)
fArchive == File("go1.linux-amd64.tar.gz", "linux", "amd64", "archive", <<"1", "a">>)
fArchiveAlt == File("go1.linux-amd64.alt.tar.gz", "linux", "amd64", "archive", <<"a", "b">>)
fDarwin == File("go1.darwin-amd64.tar.gz", "darwin", "amd64", "archive", <<"a", "b">>)
fUpper == File("go2.linux-amd64.tar.gz", "linux", "amd64", "archive", <<"1", "A">>)

Releases == { GoRelease(Ver1, <<fInstaller, fArchive, fArchiveAlt>>),
              GoRelease(Ver1, <<fDarwin>>),
              GoRelease(Ver2, <<fUpper>>) }

\* the catalogs the endpoint can return: up to MaxReleases releases, in any
\* order, the same version possibly published twice
Catalogs == UNION { [1..k -> Releases] : k \in 0..MaxReleases }

\* SHA-256 sums of the content a download can leave in the file (0x1a, 0xab)
Sums == { <<26>>, <<171>> }

HostPaths == { {}, {"zypper"}, {"apt-get", "dnf"}, {"yum", "apk"} }
\* what lsb_release -is prints, lower-cased: nothing, a name the package
\* tables know, and one they do not
LsbOutputs == { "", "ubuntu", "linuxmint" }
HostAbsent == { {}, {"GCC", "Make"}, {"Git"} }

Keys == {"y", "Y", "n", "N", "q", "ctrl+c", "enter", "down", "up", "x"}

MaxLines == 1

Seqs(S, n) == UNION { [1..k -> S] : k \in 0..n }

\* what a shell config file can be before the program runs
ConfigFiles ==
    {NoConfig, ConfigFile("unreadable", <<>>)}
    \cup {ConfigFile(mode, content) :
              mode \in {"rw", "ro"},
              content \in Seqs({userLine, userGoPath}, MaxLines)}

Home(shell, dir, files) == [shell |-> shell, dir |-> dir, files |-> files]

Homes == {Home(shell, dir, files) :
              shell \in {"zsh", "bash", "fish"}, dir \in {"", "/root"},
              files \in [ConfigNames -> ConfigFiles]}

NoHome == Home("", "", [n \in ConfigNames |-> NoConfig])

\* the host a session is run on: bash, a .bashrc without the entry and no
\* .bash_profile (configuring succeeds, or fails when the write fails)
SessionHomes ==
    {Home("bash", "/root", [n \in ConfigNames |->
              IF n = ".bashrc" THEN ConfigFile("rw", <<userLine>>) ELSE NoConfig])}

\* the outcomes of WriteString, per file: all three lines, or fewer and an error
Shorts == [ConfigNames -> 0..Len(appended)]

\* ... for the files setupEnvironment can write to on host h
ShortsFor(h) ==
    {short \in Shorts :
        \A n \in ConfigNames :
            (h.dir = "" \/ \A k \in 1..Len(configFiles(h.shell)) :
                              configFiles(h.shell)[k] # n)
            => short[n] = Len(appended)}

KeyMsg(k) == [type |-> "KeyMsg", key |-> k]

Units == {"checkDependencies", "installDependencies", "fetchReleases",
          "stepDownload", "stepVerify", "stepRemove", "stepExtract",
          "stepConfigure"}

\* the unit of work whose completion event a message is ("" for other messages)
UnitOf(msg) ==
    CASE msg.type = "depsCheckMsg" -> "checkDependencies"
      [] msg.type = "depsInstallMsg" -> "installDependencies"
      [] msg.type = "fetchedMsg" -> "fetchReleases"
      [] msg.type = "downloadedMsg" -> "stepDownload"
      [] msg.type = "verifiedMsg" -> "stepVerify"
      [] msg.type = "removedMsg" -> "stepRemove"
      [] msg.type = "extractedMsg" -> "stepExtract"
      [] msg.type = "configuredMsg" -> "stepConfigure"
      [] OTHER -> ""

\* the commands a returned tea.Cmd stands for
Flatten(cmd) ==
    IF cmd = NoCmd THEN {}
    ELSE IF cmd.cmd = "Batch" THEN cmd.cmds
    ELSE {cmd}

Count(d, cmd) ==
    [u \in Units |-> d[u] + Cardinality({c \in Flatten(cmd) : c.cmd = u})]

Exists == installDir # "absent"

NoOut == [r |-> EmptyRelease, filename |-> "", sha256 |-> <<>>, err |-> Nil]

NoSel == [all |-> <<>>, ver |-> <<>>, goos |-> "", arch |-> "",
          called |-> FALSE, out |-> NoOut]

(***************************************************************************)
(* main: the program is started on NewMainModel(version)                   *)
(***************************************************************************)
Init ==
    /\ flagVersion \in FlagVersions
    /\ model = NewMainModel(flagVersion)
    /\ running = TRUE
    /\ cmds = {mainModel_Init(model)}
    /\ msgs = {}
    /\ installDir \in {"absent", "old"}
    /\ archive = NoFile
    /\ home \in SessionHomes
    /\ dispatched = Count([u \in Units |-> 0], mainModel_Init(model))
    /\ handled = [u \in Units |-> "pending"]
    /\ answered = {}
    /\ sel = NoSel

(***************************************************************************)
(* The event loop                                                          *)
(***************************************************************************)
Update(m, msg, exists) ==
    IF m.type = "mainModel" THEN mainModel_Update(m, msg, exists)
    ELSE installModel_Update(m, msg)

\* the states in which mainModel.Update has a case for key presses
interactiveStates == {"mainStateConfirmInstallDeps", "mainStateSelectVersion",
                      "mainStateConfirmOverride"}

\* "yes", "no": the answers in ConfirmOverride; "install", "decline": the
\* answers in ConfirmInstallDeps
Answer(m, msg) ==
    IF m.type = "mainModel" /\ m.state = "mainStateConfirmOverride"
       /\ msg.type = "KeyMsg"
    THEN IF msg.key \in {"y", "Y"} THEN {"yes"}
         ELSE IF msg.key \in {"n", "N"} THEN {"no"} ELSE {}
    ELSE IF m.type = "mainModel" /\ m.state = "mainStateConfirmInstallDeps"
            /\ msg.type = "KeyMsg"
    THEN IF msg.key \in {"y", "Y"} THEN {"install"}
         ELSE IF msg.key \in {"n", "N"} THEN {"decline"} ELSE {}
    ELSE {}

TickMsg(id) == [type |-> "TickMsg", id |-> id]

\* A command handed to the runner: a Tick command only waits for the
\* spinner's frame time and returns its TickMsg, so it is held as that
\* message in flight; every other command waits in cmds until it has run.
Started(cs) == {c \in cs : c.cmd # "Tick"}
Ticking(cs) == {TickMsg(c.id) : c \in {d \in cs : d.cmd = "Tick"}}

\* model, cmd = model.Update(msg); cmds <- cmd
Deliver(msg) ==
    LET res == Update(model, msg, Exists)
        cs == IF res.cmd = NoCmd THEN {} ELSE {res.cmd}
    IN
    /\ running
    /\ model' = res.m
    /\ cmds' = cmds \cup Started(cs)
    /\ msgs' = (msgs \ {msg}) \cup Ticking(cs)
    /\ dispatched' = Count(dispatched, res.cmd)
    /\ handled' = IF UnitOf(msg) = "" THEN handled
                  ELSE [handled EXCEPT ![UnitOf(msg)] = msg.err]
    /\ answered' = answered \cup Answer(model, msg)
    /\ UNCHANGED <<flagVersion, running, installDir, archive, home, sel>>

\* a key press: the input reader posts a KeyMsg, the event loop receives it
HandleKeyMsg ==
    /\ running
    /\ \E k \in Keys : Deliver(KeyMsg(k))

HandleDepsCheckMsg ==
    /\ running
    /\ \E msg \in msgs : msg.type = "depsCheckMsg" /\ Deliver(msg)

HandleDepsInstallMsg ==
    /\ running
    /\ \E msg \in msgs : msg.type = "depsInstallMsg" /\ Deliver(msg)

HandleFetchedMsg ==
    /\ running
    /\ \E msg \in msgs : msg.type = "fetchedMsg" /\ Deliver(msg)

HandleDownloadedMsg ==
    /\ running
    /\ \E msg \in msgs : msg.type = "downloadedMsg" /\ Deliver(msg)

HandleVerifiedMsg ==
    /\ running
    /\ \E msg \in msgs : msg.type = "verifiedMsg" /\ Deliver(msg)

HandleRemovedMsg ==
    /\ running
    /\ \E msg \in msgs : msg.type = "removedMsg" /\ Deliver(msg)

HandleExtractedMsg ==
    /\ running
    /\ \E msg \in msgs : msg.type = "extractedMsg" /\ Deliver(msg)

HandleConfiguredMsg ==
    /\ running
    /\ \E msg \in msgs : msg.type = "configuredMsg" /\ Deliver(msg)

HandleTickMsg ==
    /\ running
    /\ \E msg \in msgs : msg.type = "TickMsg" /\ Deliver(msg)

\* the runtime hands the commands of a batch to the command runner
HandleBatchMsg ==
    /\ running
    /\ \E msg \in msgs :
        /\ msg.type = "BatchMsg"
        /\ cmds' = cmds \cup Started(msg.cmds)
        /\ msgs' = (msgs \ {msg}) \cup Ticking(msg.cmds)
        /\ UNCHANGED <<flagVersion, model, running, installDir, archive, home,
                       dispatched, handled, answered, sel>>

\* the event loop returns; Run returns; main returns
HandleQuitMsg ==
    /\ running
    /\ \E msg \in msgs :
        /\ msg.type = "QuitMsg"
        /\ running' = FALSE
        /\ msgs' = msgs \ {msg}
        /\ UNCHANGED <<flagVersion, model, cmds, installDir, archive, home,
                       dispatched, handled, answered, sel>>


(***************************************************************************)
(* The command runner: each command runs in its own goroutine and posts    *)
(* the message it returns.  Nothing runs once main has returned.           *)
(***************************************************************************)
Post(c, msg) ==
    /\ running
    /\ c \in cmds
    /\ cmds' = cmds \ {c}
    /\ msgs' = msgs \cup {msg}
    /\ UNCHANGED <<flagVersion, model, running, dispatched, handled, answered, sel>>

RunQuit ==
    /\ Post(Quit, [type |-> "QuitMsg"])
    /\ UNCHANGED <<installDir, archive, home>>

RunBatch ==
    /\ running
    /\ \E c \in cmds :
        /\ c.cmd = "Batch"
        /\ Post(c, [type |-> "BatchMsg", cmds |-> c.cmds])
        /\ UNCHANGED <<installDir, archive, home>>

RunCheckDependencies ==
    /\ running
    /\ \E path \in HostPaths, lsb \in LsbOutputs, absent \in HostAbsent :
        /\ Post(checkDependenciesCmd, checkDependencies(path, lsb, absent))
        /\ UNCHANGED <<installDir, archive, home>>

RunInstallDependencies ==
    /\ running
    /\ \E c \in cmds, updateOK \in BOOLEAN, installOK \in BOOLEAN :
        /\ c.cmd = "installDependencies"
        /\ Post(c, installDependencies(c.distro, c.deps, updateOK, installOK))
        /\ UNCHANGED <<installDir, archive, home>>

\* fetchReleases: the request or the decoding fails, or a catalog is decoded
RunFetchReleases ==
    /\ running
    /\ \E out \in {[releases |-> <<>>, err |-> e] : e \in {"network error", "parse error"}}
               \cup {[releases |-> all, err |-> Nil] : all \in Catalogs} :
        /\ Post(fetchReleasesCmd,
                [type |-> "fetchedMsg", releases |-> out.releases, err |-> out.err])
        /\ UNCHANGED <<installDir, archive, home>>

downloadedMsg(filename, sha256, err) ==
    [type |-> "downloadedMsg", filename |-> filename, sha256 |-> sha256,
     err |-> err]

\* stepDownload: FindBuild, then downloadFile, which creates the file named
\* after the build (os.Create fails on an empty name) and copies the
\* response body into it
RunStepDownload ==
    /\ running
    /\ \E c \in cmds :
        /\ c.cmd = "stepDownload"
        /\ LET b == FindBuild(c.m.releases, c.m.version, c.m.targetOS,
                              c.m.targetArch) IN
           IF b.err # Nil
           THEN /\ Post(c, downloadedMsg("", <<>>, b.err))
                /\ UNCHANGED <<installDir, archive, home>>
           ELSE \/ /\ Post(c, downloadedMsg("", <<>>, "create failed"))
                   /\ UNCHANGED <<installDir, archive, home>>
                \/ \E sum \in Sums, err \in {Nil, "download failed"} :
                       /\ b.filename # ""
                       /\ archive' = [name |-> b.filename, sum |-> sum]
                       /\ Post(c, IF err = Nil
                                  THEN downloadedMsg(b.filename, b.sha256, Nil)
                                  ELSE downloadedMsg("", <<>>, err))
                       /\ UNCHANGED <<installDir, home>>

RunStepVerify ==
    /\ running
    /\ \E c \in cmds :
        /\ c.cmd = "stepVerify"
        /\ Post(c, [type |-> "verifiedMsg",
                    err |-> verifyChecksum(archive, c.m.filename, c.m.sha256)])
        /\ UNCHANGED <<installDir, archive, home>>

\* stepRemove: os.RemoveAll("/usr/local/go"); a failure can leave the
\* directory as it was or partly removed
RunStepRemove ==
    /\ running
    /\ \E c \in cmds :
        /\ c.cmd = "stepRemove"
        /\ \/ /\ installDir' = "absent"
              /\ Post(c, [type |-> "removedMsg", err |-> Nil])
           \/ /\ installDir' \in {installDir} \cup
                     (IF installDir = "absent" THEN {} ELSE {"partial"})
              /\ Post(c, [type |-> "removedMsg", err |-> "remove failed"])
        /\ UNCHANGED <<archive, home>>

\* stepExtract: extractTarGz(m.filename, "/usr/local"), then os.Remove of the
\* archive; a failure leaves what was unpacked so far
RunStepExtract ==
    /\ running
    /\ \E c \in cmds :
        /\ c.cmd = "stepExtract"
        /\ \/ /\ installDir' = "new"
              /\ archive' = NoFile
              /\ Post(c, [type |-> "extractedMsg", err |-> Nil])
           \/ /\ installDir' \in {installDir, "partial"}
              /\ UNCHANGED archive
              /\ Post(c, [type |-> "extractedMsg", err |-> "extract failed"])
        /\ UNCHANGED home

\* stepConfigure: setupEnvironment on the host's shell config files
RunStepConfigure ==
    /\ running
    /\ \E c \in cmds, short \in ShortsFor(home) :
        /\ c.cmd = "stepConfigure"
        /\ home' = [home EXCEPT !.files = setupEnvironment(home, short).files]
        /\ Post(c, [type |-> "configuredMsg",
                    err |-> setupEnvironment(home, short).err])
        /\ UNCHANGED <<installDir, archive>>

Next ==
    \/ HandleKeyMsg
    \/ HandleDepsCheckMsg
    \/ HandleDepsInstallMsg
    \/ HandleFetchedMsg
    \/ HandleDownloadedMsg
    \/ HandleVerifiedMsg
    \/ HandleRemovedMsg
    \/ HandleExtractedMsg
    \/ HandleConfiguredMsg
    \/ HandleTickMsg
    \/ HandleBatchMsg
    \/ HandleQuitMsg
    \/ RunQuit
    \/ RunBatch
    \/ RunCheckDependencies
    \/ RunInstallDependencies
    \/ RunFetchReleases
    \/ RunStepDownload
    \/ RunStepVerify
    \/ RunStepRemove
    \/ RunStepExtract
    \/ RunStepConfigure

Spec == Init /\ [][Next]_vars


(***************************************************************************)
(* The pipeline on its own: the session from the step that returned        *)
(* startInstallation on, on catalogs that also hold file entries without   *)
(* a digest or without a name.                                             *)
(***************************************************************************)
fNoSha == File("go3.linux-amd64.tar.gz", "linux", "amd64", "archive", <<>>)
fNoName == File("", "linux", "amd64", "archive", <<"1", "a">>)

PipelineReleases ==
    Releases \cup {GoRelease(Ver3, <<fNoSha>>), GoRelease(Ver3, <<fNoName>>)}

MaxPipelineReleases == 1

PipelineCatalogs ==
    UNION { [1..k -> PipelineReleases] : k \in 1..MaxPipelineReleases }

\* the state after mainModel.Update has returned startInstallation(m): the
\* dependencies were resolved, the catalog was fetched, a version of it was
\* chosen and, where /usr/local/go exists, the override was confirmed.  A
\* tea.Quit returned for an earlier key may not have been received yet.
InitPipeline ==
    /\ flagVersion = <<>>
    /\ \E all \in PipelineCatalogs, i \in 1..MaxPipelineReleases, quit \in SUBSET {Quit} :
        /\ i <= Len(all)
        /\ model = startInstallation(
                       [NewMainModel(<<>>) EXCEPT !.releases = all,
                                                  !.selectedVer = all[i].Version]).m
        /\ cmds = {installModel_Init(model)} \cup quit
    /\ running = TRUE
    /\ msgs = {}
    /\ installDir \in {"absent", "old"}
    /\ archive = NoFile
    /\ home \in SessionHomes
    /\ dispatched = Count([u \in Units |->
                              IF u \in {"checkDependencies", "fetchReleases"}
                              THEN 1 ELSE 0],
                          installModel_Init(model))
    /\ handled = [u \in Units |->
                     IF u \in {"checkDependencies", "fetchReleases"}
                     THEN Nil ELSE "pending"]
    /\ answered = IF installDir = "old" THEN {"yes"} ELSE {}
    /\ sel = NoSel

NextPipeline ==
    \/ HandleKeyMsg
    \/ HandleDownloadedMsg
    \/ HandleVerifiedMsg
    \/ HandleRemovedMsg
    \/ HandleExtractedMsg
    \/ HandleConfiguredMsg
    \/ HandleTickMsg
    \/ HandleBatchMsg
    \/ HandleQuitMsg
    \/ RunQuit
    \/ RunBatch
    \/ RunStepDownload
    \/ RunStepVerify
    \/ RunStepRemove
    \/ RunStepExtract
    \/ RunStepConfigure

SpecPipeline == InitPipeline /\ [][NextPipeline]_vars

\* a key press other than the quit keys
HandleOtherKeyMsg ==
    /\ running
    /\ \E k \in Keys \ {"q", "ctrl+c"} : Deliver(KeyMsg(k))

NextPipelineNoQuitKey ==
    \/ HandleOtherKeyMsg
    \/ HandleDownloadedMsg
    \/ HandleVerifiedMsg
    \/ HandleRemovedMsg
    \/ HandleExtractedMsg
    \/ HandleConfiguredMsg
    \/ HandleTickMsg
    \/ HandleBatchMsg
    \/ HandleQuitMsg
    \/ RunQuit
    \/ RunBatch
    \/ RunStepDownload
    \/ RunStepVerify
    \/ RunStepRemove
    \/ RunStepExtract
    \/ RunStepConfigure

\* every command handed to the runtime runs in a goroutine of its own and
\* returns; the event loop receives every message sent to it
PipelineFairness ==
    /\ WF_vars(RunBatch) /\ WF_vars(RunQuit)
    /\ WF_vars(RunStepDownload) /\ WF_vars(RunStepVerify)
    /\ WF_vars(RunStepRemove) /\ WF_vars(RunStepExtract)
    /\ WF_vars(RunStepConfigure)
    /\ WF_vars(HandleBatchMsg) /\ WF_vars(HandleTickMsg)
    /\ WF_vars(HandleQuitMsg)
    /\ WF_vars(HandleDownloadedMsg) /\ WF_vars(HandleVerifiedMsg)
    /\ WF_vars(HandleRemovedMsg) /\ WF_vars(HandleExtractedMsg)
    /\ WF_vars(HandleConfiguredMsg)

SpecPipelineFair ==
    InitPipeline /\ [][NextPipelineNoQuitKey]_vars /\ PipelineFairness


(***************************************************************************)
(* FindBuild on its own: the inputs are drawn, then the function is called *)
(***************************************************************************)
InitFindBuild ==
    /\ flagVersion = <<>>
    /\ home = NoHome
    /\ model = NewMainModel(<<>>)
    /\ running = FALSE
    /\ cmds = {}
    /\ msgs = {}
    /\ installDir = "absent"
    /\ archive = NoFile
    /\ dispatched = [u \in Units |-> 0]
    /\ handled = [u \in Units |-> "pending"]
    /\ answered = {}
    /\ \E all \in Catalogs, ver \in {Ver1, Ver2, Ver3},
          goos \in {"linux", "darwin"}, arch \in {"amd64", "arm64"} :
           sel = [all |-> all, ver |-> ver, goos |-> goos, arch |-> arch,
                  called |-> FALSE, out |-> NoOut]

CallFindBuild ==
    /\ ~sel.called
    /\ sel' = [sel EXCEPT !.called = TRUE,
                          !.out = FindBuild(sel.all, sel.ver, sel.goos, sel.arch)]
    /\ UNCHANGED <<flagVersion, model, running, cmds, msgs, installDir, archive,
                   home, dispatched, handled, answered>>

SpecFindBuild == InitFindBuild /\ [][CallFindBuild]_vars


(***************************************************************************)
(* NormalizeVersion on its own: any string, normalized again and again     *)
(***************************************************************************)
MaxLen == 3
MaxCalls == 2

VersionStrings == Seqs({"g", "o", "1", "."}, MaxLen)

InitNormalizeVersion ==
    /\ flagVersion = <<>>
    /\ model = NewMainModel(<<>>)
    /\ running = FALSE
    /\ cmds = {}
    /\ msgs = {}
    /\ installDir = "absent"
    /\ archive = NoFile
    /\ home = NoHome
    /\ dispatched = [u \in Units |-> 0]
    /\ handled = [u \in Units |-> "pending"]
    /\ answered = {}
    /\ \E v \in VersionStrings :
           sel = [v |-> v, calls |-> 0, first |-> <<>>, out |-> v]

\* sel: the string, the number of calls, the first result and the last one;
\* each call is applied to the result of the call before
CallNormalizeVersion ==
    /\ sel.calls < MaxCalls
    /\ sel' = [sel EXCEPT !.calls = sel.calls + 1,
                          !.first = IF sel.calls = 0 THEN NormalizeVersion(sel.v)
                                    ELSE sel.first,
                          !.out = NormalizeVersion(sel.out)]
    /\ UNCHANGED <<flagVersion, model, running, cmds, msgs, installDir, archive,
                   home, dispatched, handled, answered>>

SpecNormalizeVersion == InitNormalizeVersion /\ [][CallNormalizeVersion]_vars


(***************************************************************************)
(* setupEnvironment on its own: any host, the function run again and again *)
(***************************************************************************)
MaxRuns == 2

NoRun == [runs |-> 0, before |-> NoHome.files, err |-> Nil]

InitSetupEnvironment ==
    /\ flagVersion = <<>>
    /\ model = NewMainModel(<<>>)
    /\ running = FALSE
    /\ cmds = {}
    /\ msgs = {}
    /\ installDir = "new"
    /\ archive = NoFile
    /\ home \in Homes
    /\ dispatched = [u \in Units |-> 0]
    /\ handled = [u \in Units |-> "pending"]
    /\ answered = {}
    /\ sel = NoRun

\* sel: the number of runs, the files before the last run and its result
CallSetupEnvironment ==
    /\ sel.runs < MaxRuns
    /\ \E short \in ShortsFor(home) :
        /\ home' = [home EXCEPT !.files = setupEnvironment(home, short).files]
        /\ sel' = [runs |-> sel.runs + 1, before |-> home.files,
                   err |-> setupEnvironment(home, short).err]
    /\ UNCHANGED <<flagVersion, model, running, cmds, msgs, installDir, archive,
                   dispatched, handled, answered>>

SpecSetupEnvironment == InitSetupEnvironment /\ [][CallSetupEnvironment]_vars


(***************************************************************************)
(* Properties                                                              *)
(***************************************************************************)
Pipeline == model.type = "installModel"

HostUntouched == installDir \in {"absent", "old"}

\* C1: extraction is dispatched only after a verifiedMsg without an error
\* has been handled: whenever stepExtract has been returned by Update, the
\* completion event of stepVerify was handled and carried no error.
C1_ExtractOnlyAfterVerified ==
    dispatched["stepExtract"] > 0 => handled["stepVerify"] = Nil

\* C1 witness: extraction was dispatched, ran and unpacked the archive.
C1_Witness ==
    /\ dispatched["stepExtract"] > 0
    /\ installDir = "new"

\* C2: the removal of /usr/local/go is never dispatched, and the directory
\* is never changed, before the checksum verification has succeeded.
C2_RemoveOnlyAfterVerified ==
    handled["stepVerify"] # Nil =>
        /\ dispatched["stepRemove"] = 0
        /\ \A c \in cmds : c.cmd # "stepRemove"
        /\ HostUntouched

\* C2 witness: an existing installation was removed after a verification
\* that succeeded.
C2_Witness ==
    /\ dispatched["stepRemove"] > 0
    /\ handled["stepRemove"] = Nil
    /\ installDir = "absent"
    /\ "yes" \in answered

\* C3: stepConfigure is dispatched only after removal has completed without
\* an error and, after it, extraction has completed without an error
\* (extraction itself being dispatched only after the successful removal).
C3_ConfigureOnlyAfterRemoveThenExtract ==
    /\ dispatched["stepConfigure"] > 0 =>
           handled["stepRemove"] = Nil /\ handled["stepExtract"] = Nil
    /\ dispatched["stepExtract"] > 0 => handled["stepRemove"] = Nil
    /\ handled["stepExtract"] # "pending" => handled["stepRemove"] = Nil

\* C3 witness: the configuring step was dispatched and has run.
C3_Witness ==
    /\ dispatched["stepConfigure"] > 0
    /\ \E msg \in msgs : msg.type = "configuredMsg"

\* C4: when the digest computed from the downloaded file differs from the
\* declared one, the verification outcome is the checksum-mismatch error;
\* once that outcome is handled the pipeline is in the Error state with that
\* error, removal and extraction are never dispatched, and the install root
\* is not written to.
C4_MismatchHalts ==
    /\ \A msg \in msgs :
           (/\ msg.type = "verifiedMsg"
            /\ Pipeline
            /\ archive.name = model.filename
            /\ EncodeToString(archive.sum) # model.sha256)
           => msg.err = ErrShaMismatch
    /\ handled["stepVerify"] = ErrShaMismatch =>
           /\ Pipeline
           /\ model.state = "installStateError"
           /\ model.err = ErrShaMismatch
           /\ dispatched["stepRemove"] = 0
           /\ dispatched["stepExtract"] = 0
           /\ HostUntouched

\* C4 witness: a mismatch was handled, with an installation present, and
\* the session has ended.
C4_Witness ==
    /\ handled["stepVerify"] = ErrShaMismatch
    /\ installDir = "old"
    /\ ~running

ToLower(ch) ==
    CASE ch = "A" -> "a" [] ch = "B" -> "b" [] ch = "C" -> "c"
      [] ch = "D" -> "d" [] ch = "E" -> "e" [] ch = "F" -> "f"
      [] OTHER -> ch

EqualFold(a, b) ==
    /\ Len(a) = Len(b)
    /\ \A i \in 1..Len(a) : ToLower(a[i]) = ToLower(b[i])

\* C5: verification compares hex digests case-insensitively: for the file a
\* stepVerify is about to check, verifyChecksum succeeds exactly when the
\* declared digest equals the computed one up to letter case.
C5_CaseInsensitiveCompare ==
    \A c \in cmds :
        (c.cmd = "stepVerify" /\ archive.name = c.m.filename) =>
            (verifyChecksum(archive, c.m.filename, c.m.sha256) = Nil
                <=> EqualFold(EncodeToString(archive.sum), c.m.sha256))


PipelineUnits == {"stepDownload", "stepVerify", "stepRemove", "stepExtract",
                  "stepConfigure"}

\* C6: with /usr/local/go present, the orchestrator never hands over to the
\* install pipeline except from ConfirmOverride, and there only by handling
\* an affirmative key (y/Y); every other event leaves the pipeline unstarted.
C6_OverrideNeedsYes ==
    [][ (model.type = "mainModel" /\ model'.type = "installModel" /\ Exists) =>
            /\ model.state = "mainStateConfirmOverride"
            /\ "yes" \in answered'
            /\ "yes" \notin answered ]_vars

\* C6 witness: the pipeline was started over an existing installation after
\* the user confirmed, and its download has completed.
C6_Witness ==
    /\ Pipeline
    /\ installDir = "old"
    /\ answered = {"yes"}
    /\ handled["stepDownload"] = Nil

\* C7: once the user has declined the override (n/N handled in
\* ConfirmOverride), no pipeline step is ever dispatched and the existing
\* install directory stays as it was.
C7_DeclineDispatchesNothing ==
    "no" \in answered =>
        /\ \A u \in PipelineUnits : dispatched[u] = 0
        /\ ~Pipeline
        /\ installDir = "old"

\* C8: a session that ended because the user declined the override ends in
\* the orchestrator's Error state with an error recorded.
C8_DeclineRecordsError ==
    (~running /\ answered = {"no"}) =>
        /\ model.type = "mainModel"
        /\ model.state = "mainStateError"
        /\ model.err # Nil

Rank(state) ==
    CASE state = "installStateDownloading" -> 1
      [] state = "installStateVerifying" -> 2
      [] state = "installStateRemoving" -> 3
      [] state = "installStateExtracting" -> 4
      [] state = "installStateConfiguring" -> 5
      [] state = "installStateDone" -> 6
      [] OTHER -> 7

StateUnit(state) ==
    CASE state = "installStateDownloading" -> "stepDownload"
      [] state = "installStateVerifying" -> "stepVerify"
      [] state = "installStateRemoving" -> "stepRemove"
      [] state = "installStateExtracting" -> "stepExtract"
      [] state = "installStateConfiguring" -> "stepConfigure"
      [] OTHER -> ""

Working(state) == StateUnit(state) # ""

EntersByOneDispatch(state) ==
    Working(state) =>
        /\ dispatched[StateUnit(state)] = 0
        /\ dispatched'[StateUnit(state)] = 1
        /\ \A u \in Units \ {StateUnit(state)} : dispatched'[u] = dispatched[u]

C9_Step ==
    /\ (model.type = "mainModel" /\ model'.type = "installModel") =>
           /\ model'.state = "installStateDownloading"
           /\ EntersByOneDispatch(model'.state)
    /\ Pipeline =>
           /\ model'.type = "installModel"
           /\ model'.state = model.state => dispatched' = dispatched
           /\ model'.state # model.state =>
                  /\ Working(model.state)
                  /\ handled[StateUnit(model.state)] = "pending"
                  /\ handled'[StateUnit(model.state)] # "pending"
                  /\ \/ /\ handled'[StateUnit(model.state)] # Nil
                        /\ model'.state = "installStateError"
                        /\ dispatched' = dispatched
                     \/ /\ handled'[StateUnit(model.state)] = Nil
                        /\ Rank(model'.state) = Rank(model.state) + 1
                        /\ EntersByOneDispatch(model'.state)
                        /\ ~Working(model'.state) => dispatched' = dispatched

\* C9: the pipeline is strictly linear.  It starts in Downloading; its state
\* changes only when the completion event of the current state's unit of
\* work is handled, to Error when that event carries an error and to the
\* next state in order otherwise; each working state is entered together
\* with the first and only dispatch of its unit; keys, ticks and every other
\* event change neither the state nor what has been dispatched.
C9_LinearPipeline == [][C9_Step]_vars

\* C9 witness: the pipeline went through every state to Done.
C9_Witness ==
    /\ Pipeline
    /\ model.state = "installStateDone"
    /\ \A u \in PipelineUnits : dispatched[u] = 1 /\ handled[u] = Nil

IsArchiveFor(f, goos, arch) ==
    f.Kind = "archive" /\ f.OS = goos /\ f.Arch = arch

WithVersion(all, ver) == {i \in 1..Len(all) : all[i].Version = ver}

ArchivesOf(r, goos, arch) ==
    {j \in 1..Len(r.Files) : IsArchiveFor(r.Files[j], goos, arch)}

Least(S) == CHOOSE x \in S : \A y \in S : x <= y

\* the result is the first matching archive of the first release with ver
IsFirstArchive(out, all, ver, goos, arch) ==
    LET r == all[Least(WithVersion(all, ver))] IN
    /\ out.err = Nil
    /\ ArchivesOf(r, goos, arch) # {}
    /\ out.r = r
    /\ out.filename = r.Files[Least(ArchivesOf(r, goos, arch))].Filename
    /\ out.sha256 = r.Files[Least(ArchivesOf(r, goos, arch))].Sha256

\* C10 as claimed: if any release with the version has an archive for the
\* platform, FindBuild returns, without an error, the first such file of the
\* first release with that version.
C10_AnyReleaseWithArchive ==
    (/\ sel.called
     /\ \E i \in WithVersion(sel.all, sel.ver) :
            ArchivesOf(sel.all[i], sel.goos, sel.arch) # {})
    => IsFirstArchive(sel.out, sel.all, sel.ver, sel.goos, sel.arch)

\* C10 as amended: if the first release with the version has an archive for
\* the platform, FindBuild returns, without an error, the filename and digest
\* of the first such file of that release; and whatever FindBuild returns
\* without an error is an archive-kind file for the platform.
C10_FirstReleaseWithArchive ==
    /\ (/\ sel.called
        /\ WithVersion(sel.all, sel.ver) # {}
        /\ ArchivesOf(sel.all[Least(WithVersion(sel.all, sel.ver))],
                      sel.goos, sel.arch) # {})
       => IsFirstArchive(sel.out, sel.all, sel.ver, sel.goos, sel.arch)
    /\ (sel.called /\ sel.out.err = Nil) =>
           \E j \in 1..Len(sel.out.r.Files) :
               /\ IsArchiveFor(sel.out.r.Files[j], sel.goos, sel.arch)
               /\ sel.out.r.Files[j].Filename = sel.out.filename
               /\ sel.out.r.Files[j].Sha256 = sel.out.sha256

\* C10 witness: FindBuild skipped a release of another version and an
\* installer entry, and returned the first of two matching archives.
C10_Witness ==
    /\ sel.called
    /\ Len(sel.all) = 2
    /\ sel.all[1].Version # sel.ver
    /\ sel.all[2].Files[1].Kind = "installer"
    /\ Cardinality(ArchivesOf(sel.all[2], sel.goos, sel.arch)) = 2
    /\ sel.out.err = Nil
    /\ sel.out.filename = fArchive.Filename

\* the session was started with a version and the catalog has been fetched
Requested == NormalizeVersion(flagVersion)

Fetched == handled["fetchReleases"] = Nil

Selection == FindBuild(model.releases, Requested, GetOS, GetArch)

\* the selector tells its two failures apart (on the catalog of the session)
C11_SelectorDistinguishes ==
    (Fetched /\ flagVersion # <<>>) =>
        /\ WithVersion(model.releases, Requested) = {}
               => Selection.err = ErrVersionNotFound
        /\ WithVersion(model.releases, Requested) # {}
               => Selection.err # ErrVersionNotFound
        /\ (/\ WithVersion(model.releases, Requested) # {}
            /\ \A i \in WithVersion(model.releases, Requested) :
                   ArchivesOf(model.releases[i], GetOS, GetArch) = {})
               => Selection.err = ErrNoArchive

\* C11: build selection distinguishes 'version not found' from 'no archive
\* for the platform', and the session presents them distinctly: when the
\* version asked for cannot be selected, the screen shown names the failure
\* that occurred.
C11_FailuresPresentedDistinctly ==
    /\ C11_SelectorDistinguishes
    /\ (/\ Fetched
        /\ flagVersion # <<>>
        /\ model.type = "mainModel"
        /\ model.state = "mainStateSelectVersion"
        /\ Selection.err # Nil)
       => View(model).err = Selection.err

\* C12: version normalization is idempotent: normalizing the result of a
\* normalization gives that result again; a string that starts with "go" is
\* returned unchanged, and a non-empty string without that prefix (a bare
\* numeric version) is returned with "go" put in front.
C12_NormalizeIdempotent ==
    /\ sel.calls >= 2 => sel.out = sel.first
    /\ (sel.calls >= 1 /\ HasPrefix(sel.v, <<"g", "o">>)) => sel.first = sel.v
    /\ (sel.calls >= 1 /\ sel.v # <<>> /\ ~HasPrefix(sel.v, <<"g", "o">>))
           => sel.first = <<"g", "o">> \o sel.v

\* C12 witness: a bare numeric version was normalized twice.
C12_Witness ==
    /\ sel.calls = 2
    /\ sel.v = <<"1", ".", "1">>
    /\ sel.out = <<"g", "o", "1", ".", "1">>

\* the catalog of the session has the requested version, and the first
\* release with it has an archive for the platform
HasBuild ==
    /\ Fetched
    /\ flagVersion # <<>>
    /\ WithVersion(model.releases, Requested) # {}
    /\ ArchivesOf(model.releases[Least(WithVersion(model.releases, Requested))],
                  GetOS, GetArch) # {}

Build ==
    LET r == model.releases[Least(WithVersion(model.releases, Requested))]
    IN r.Files[Least(ArchivesOf(r, GetOS, GetArch))]

Yields(b) ==
    b.err = Nil /\ b.filename = Build.Filename /\ b.sha256 = Build.Sha256

\* the session goes on with the requested version, without asking for one,
\* and its download step yields the build
SessionYieldsBuild ==
    /\ model.type = "mainModel" =>
           /\ model.state = "mainStateConfirmOverride"
           /\ model.selectedVer = Requested
    /\ Pipeline => model.version = Requested
    /\ \A msg \in msgs :
           (msg.type = "downloadedMsg" /\ msg.err = Nil) =>
               msg.filename = Build.Filename /\ msg.sha256 = Build.Sha256
    /\ (Pipeline /\ handled["stepDownload"] = Nil) =>
           model.filename = Build.Filename /\ model.sha256 = Build.Sha256

\* C13 as claimed: when the catalog has the normalized form of the version
\* asked for, with an archive for linux/amd64, the build selector called
\* with the version as asked for (bare) yields that archive's filename and
\* digest, and so does the session started with it.
C13_BareVersionSelects ==
    HasBuild =>
        /\ Yields(FindBuild(model.releases, flagVersion, GetOS, GetArch))
        /\ SessionYieldsBuild

\* C13 as amended: the session normalizes the version asked for; the build
\* selector called with the normalized version yields that archive's
\* filename and digest, and so does the session started with the bare one.
C13_NormalizedVersionSelects ==
    HasBuild =>
        /\ Yields(FindBuild(model.releases, NormalizeVersion(flagVersion),
                            GetOS, GetArch))
        /\ SessionYieldsBuild

\* C13 witness: a session started with the bare version 1 has downloaded
\* the archive of go1.
C13_Witness ==
    /\ flagVersion = <<"1">>
    /\ Pipeline
    /\ handled["stepDownload"] = Nil
    /\ model.filename = fArchive.Filename
    /\ model.sha256 = fArchive.Sha256

QuitPending ==
    \/ Quit \in cmds
    \/ \E msg \in msgs : msg.type = "QuitMsg"
    \/ ~running

NothingFetchedOrInstalled ==
    /\ dispatched["fetchReleases"] = 0
    /\ \A u \in PipelineUnits : dispatched[u] = 0
    /\ HostUntouched

C14_Step ==
    /\ dispatched'["installDependencies"] # dispatched["installDependencies"] =>
           /\ model.type = "mainModel"
           /\ model.state = "mainStateConfirmInstallDeps"
           /\ Len(model.missingDeps) > 0
           /\ "install" \notin answered
           /\ "install" \in answered'
           /\ dispatched'["installDependencies"] = 1
    /\ \A c \in cmds' :
           c.cmd = "installDependencies" =>
               /\ "install" \in answered'
               /\ Len(c.deps) > 0
    /\ \A msg \in msgs' :
           msg.type = "depsInstallMsg" => "install" \in answered'

\* C14: installDependencies is dispatched only by handling y/Y in the
\* ConfirmInstallDeps state, at most once; it is never in the hands of the
\* command runner, and never has run, without that answer; and it is never
\* dispatched with an empty list of missing dependencies.
C14_InstallNeedsYes == [][C14_Step]_vars

\* C14 witness: the user confirmed, the install command ran and succeeded.
C14_Witness ==
    /\ "install" \in answered
    /\ dispatched["installDependencies"] = 1
    /\ handled["installDependencies"] = Nil

\* C15: once n/N was handled in ConfirmInstallDeps, the orchestrator is in
\* the Error state with an error recorded, the session is ending, and
\* neither the remediation, nor the catalog fetch, nor a pipeline step is
\* ever dispatched; whatever the missing dependencies are.
C15_DeclineDepsIsFatal ==
    "decline" \in answered =>
        /\ model.type = "mainModel"
        /\ model.state = "mainStateError"
        /\ model.err # Nil
        /\ View(model).err = model.err
        /\ QuitPending
        /\ dispatched["installDependencies"] = 0
        /\ NothingFetchedOrInstalled

\* C15 witness: only a recommended dependency was missing, the user
\* declined, and the session has ended.
C15_Witness ==
    /\ "decline" \in answered
    /\ ~running
    /\ Len(model.missingDeps) > 0
    /\ \A i \in 1..Len(model.missingDeps) : ~model.missingDeps[i].required

knownManagers == {"apt-get", "dnf", "yum", "pacman", "apk"}

\* C16: on every host without a known package manager the dependency check
\* yields the failure outcome, whatever is missing; and once a failed check
\* is handled the orchestrator is in the Error state with that error, the
\* session is ending, and nothing is fetched or installed.
C16_NoPackageManagerIsFatal ==
    /\ \A path \in HostPaths, lsb \in LsbOutputs, absent \in HostAbsent :
           path \cap knownManagers = {} =>
               checkDependencies(path, lsb, absent).err = ErrNoPackageManager
    /\ handled["checkDependencies"] \notin {"pending", Nil} =>
           /\ model.type = "mainModel"
           /\ model.state = "mainStateError"
           /\ model.err = handled["checkDependencies"]
           /\ QuitPending
           /\ dispatched["installDependencies"] = 0
           /\ NothingFetchedOrInstalled

\* C16 witness: the check failed for want of a package manager and the
\* session has ended.
C16_Witness ==
    /\ handled["checkDependencies"] = ErrNoPackageManager
    /\ ~running
    /\ View(model).err = ErrNoPackageManager

\* C17: every run of installDependencies runs the install command last,
\* after the update command when the distro has one; its outcome is an error
\* exactly when the install command failed, whatever the update command
\* did; a failure ends the session in Error with that error and without a
\* fetch, a success makes the orchestrator fetch the catalog.
C17_InstallOutcome ==
    /\ \A msg \in msgs :
           msg.type = "depsInstallMsg" =>
               LET n == Len(msg.ran) IN
               /\ n >= 1
               /\ msg.ran[n].cmd = model.distro.installCmd
               /\ msg.ran[n].args = packages(model.distro, model.missingDeps)
               /\ model.distro.updateCmd # "" =>
                      n = 2 /\ msg.ran[1].cmd = model.distro.updateCmd
               /\ msg.err = Nil <=> msg.ran[n].ok
               /\ msg.err # Nil => msg.err = ErrInstall
    /\ handled["installDependencies"] = Nil =>
           dispatched["fetchReleases"] = 1
    /\ handled["installDependencies"] \notin {"pending", Nil} =>
           /\ model.type = "mainModel"
           /\ model.state = "mainStateError"
           /\ model.err = ErrInstall
           /\ QuitPending
           /\ NothingFetchedOrInstalled

\* C17 witness: the update command failed, the install command succeeded,
\* and the outcome carries no error.
C17_Witness ==
    \E msg \in msgs :
        /\ msg.type = "depsInstallMsg"
        /\ Len(msg.ran) = 2
        /\ ~msg.ran[1].ok
        /\ msg.err = Nil

\* C18: a failure of the configuring step is reported but is not fatal:
\* once it is handled the pipeline is not in the Error state, the failure is
\* on the screen, and the extracted installation is in place.
C18_ConfigureFailureNotFatal ==
    handled["stepConfigure"] \notin {"pending", Nil} =>
        /\ Pipeline
        /\ installDir = "new"
        /\ View(model).err = handled["stepConfigure"]
        /\ model.state # "installStateError"

Candidates == {configFiles(home.shell)[k] : k \in 1..Len(configFiles(home.shell))}

\* C19: when, before a run of setupEnvironment, some file of the shell's
\* candidate list holds the PATH entry, the run succeeds and leaves every
\* config file as it was.
C19_EntryAnywhereIsNoOp ==
    (/\ sel.runs >= 1
     /\ home.dir # ""
     /\ \E name \in Candidates : ContainsGoBin(sel.before[name].content))
    => (sel.err = Nil /\ home.files = sel.before)

CountGoPath(content) == Cardinality({i \in 1..Len(content) : content[i] = goPath})

\* C20: setupEnvironment is idempotent on a config file.  A run only ever
\* appends to a file, and only to one that lacks the entry; a run that
\* succeeds has found the entry or has appended the comment and exactly
\* one export line to a file; a file that holds the entry is left
\* unchanged by every further run; so no file ever holds more than one
\* export line of the tool, and what was in a file before stays in front.
C20_ConfigureIdempotent ==
    sel.runs >= 1 =>
        /\ \A name \in ConfigNames :
               LET was == sel.before[name]
                   is == home.files[name]
               IN /\ is.mode = was.mode
                  /\ \E k \in 0..Len(appended) :
                         is.content = was.content \o SubSeq(appended, 1, k)
                  /\ ContainsGoBin(was.content) => is = was
                  /\ CountGoPath(is.content) <= 1
        /\ sel.err = Nil =>
               \E name \in Candidates :
                   \/ ContainsGoBin(sel.before[name].content)
                   \/ /\ home.files[name].content =
                             sel.before[name].content \o appended
                      /\ CountGoPath(home.files[name].content) = 1

\* C20 witness: the first run appended the entry to .bashrc, the second run
\* found it there and changed nothing.
C20_Witness ==
    /\ sel.runs = 2
    /\ sel.err = Nil
    /\ home.files = sel.before
    /\ home.files[".bashrc"].content = <<userLine>> \o appended

QuitIssued == Quit \in cmds \/ \E msg \in msgs : msg.type = "QuitMsg"

\* in an interactive state with a quit issued that no answer accounts for:
\* q or ctrl+c was handled there
Cancelled ==
    /\ running
    /\ model.type = "mainModel"
    /\ model.state \in interactiveStates
    /\ "no" \notin answered
    /\ QuitIssued

C21_Step ==
    /\ (model.type = "mainModel" /\ model.state \in interactiveStates) =>
           \A k \in {"q", "ctrl+c"} :
               Update(model, KeyMsg(k), Exists) = [m |-> model, cmd |-> Quit]
    /\ Cancelled =>
           /\ model'.type = "mainModel"
           /\ dispatched' = dispatched
           /\ installDir' = installDir
           /\ archive' = archive
           /\ home' = home

\* C21: q and ctrl+c in an interactive state (ConfirmInstallDeps,
\* SelectVersion, ConfirmOverride) issue quit; and once one of them was
\* handled there, no step of the session dispatches a unit of work, starts
\* the pipeline or changes the host.
C21_CancelStopsEverything == [][C21_Step]_vars

UnitCmds(cs) == {c \in cs : c.cmd \in Units}

\* the units of work in flight: handed to the runtime and not yet run, or
\* run and their completion event not yet handled
InFlightCmds ==
    UnitCmds(UNION {Flatten(c) : c \in cmds})
    \cup UnitCmds(UNION {msg.cmds : msg \in {b \in msgs : b.type = "BatchMsg"}})

InFlightMsgs == {msg \in msgs : UnitOf(msg) # ""}

InFlight == Cardinality(InFlightCmds) + Cardinality(InFlightMsgs)

C22_Step ==
    /\ InFlight <= 1
    /\ InFlight' <= 1
    /\ dispatched' # dispatched =>
           /\ \E u \in Units : dispatched' = [dispatched EXCEPT ![u] = @ + 1]
           /\ InFlight' = 1
           /\ \/ InFlight = 0 /\ handled' = handled
              \/ /\ InFlightMsgs # {}
                 /\ InFlightMsgs' = {}
                 /\ handled' # handled

\* C22: at most one unit of work is in flight at any time; a step that
\* dispatches a unit dispatches exactly one, and it is either the handling
\* of the completion event of the unit in flight, or a step taken while
\* none is in flight.
C22_OneUnitInFlight == [][C22_Step]_vars

\* C22 witness: the last unit of the pipeline is in flight, alone, after
\* all the others.
C22_Witness ==
    /\ InFlight = 1
    /\ \E c \in cmds : c.cmd = "stepConfigure"
    /\ dispatched["installDependencies"] = 1

Failed(u) == handled[u] \notin {"pending", Nil}

\* C23: there is no retry: every unit of work is dispatched at most once
\* in a session, and a unit that has failed has been dispatched once and
\* is not dispatched again.
C23_NoRetry ==
    \A u \in Units :
        /\ dispatched[u] <= 1
        /\ handled[u] # "pending" => dispatched[u] = 1

\* C23 witness: the session is over after a failed fetch of the catalog.
C23_Witness ==
    /\ ~running
    /\ Failed("fetchReleases")
    /\ dispatched["fetchReleases"] = 1

ErrorState(m) ==
    IF m.type = "installModel" THEN "installStateError" ELSE "mainStateError"

InError == model.state = ErrorState(model)

C24_Step ==
    /\ \A u \in Units :
           (handled[u] = "pending" /\ handled'[u] \notin {"pending", Nil}) =>
               /\ model'.type = model.type
               /\ model'.state = ErrorState(model)
               /\ model'.err = handled'[u]
               /\ View(model').err = handled'[u]
               /\ Quit \in cmds'
               /\ dispatched' = dispatched
    /\ InError =>
           /\ model' = model
           /\ dispatched' = dispatched

\* C24: handling a completion event that carries an error (of the
\* dependency check or installation, the fetch, or a pipeline step) leaves
\* the handling model in its Error state with that error recorded and
\* shown by View, hands tea.Quit to the runtime and dispatches no unit of
\* work; from the Error state no step changes the model or dispatches a
\* unit.
C24_FailureIsFatal == [][C24_Step]_vars

\* C24 witness: a failed extraction has been handled, the pipeline shows
\* its error and the quit is on its way.
C24_Witness ==
    /\ Pipeline /\ InError
    /\ handled["stepExtract"] \notin {"pending", Nil}
    /\ View(model).err = handled["stepExtract"]
    /\ Quit \in cmds

Configured == Pipeline /\ handled["stepConfigure"] = Nil

\* C25: once the completion event of stepConfigure without an error has
\* been handled the pipeline is in Done, and the screen of Done holds the
\* install location and the version selected for the session.
C25_DoneReportsVersion ==
    Configured =>
        /\ model.state = "installStateDone"
        /\ View(model).text = "Successfully installed to /usr/local/go"
        /\ View(model).detail = model.version

\* the file entry FindBuild selects for the session
Selected == FindBuild(model.releases, model.version, model.targetOS, model.targetArch)

SelectionEmpty == model.filename = "" /\ model.sha256 = <<>>

\* C26 as stated: filename and digest are both empty or both non-empty.
C26_BothOrNeither ==
    Pipeline => (model.filename = "" <=> model.sha256 = <<>>)

\* C26, amended: the filename and the digest of the pipeline are both
\* empty, or they are the Filename and the Sha256 of one file entry, the
\* one FindBuild selects for the session, and the filename is not empty;
\* the digest is then empty only where that entry's sha256 is.
C26_SetTogetherFromOneEntry ==
    Pipeline =>
        \/ SelectionEmpty
        \/ /\ Selected.err = Nil
           /\ model.filename = Selected.filename
           /\ model.sha256 = Selected.sha256
           /\ model.filename # ""
           /\ handled["stepDownload"] = Nil

\* C26 witness: the download of an entry with a name and a digest was
\* handled and both are in the model.
C26_Witness ==
    /\ Pipeline
    /\ handled["stepDownload"] = Nil
    /\ model.filename = fArchive.Filename
    /\ model.sha256 = fArchive.Sha256

UnderCursor == model.list.items[model.list.cursor]

C27_Step ==
    flagVersion = <<>> =>
        /\ (handled["fetchReleases"] = "pending" /\ handled'["fetchReleases"] = Nil) =>
               /\ model'.type = "mainModel"
               /\ model'.state = "mainStateSelectVersion"
               /\ \E msg \in msgs :
                      /\ msg.type = "fetchedMsg"
                      /\ model'.list.items = releaseTitles(msg.releases)
               /\ View(model').detail = model'.list.items
               /\ model'.selectedVer = <<>>
               /\ dispatched' = dispatched
        /\ (model.type = "mainModel" /\ model'.type = "mainModel"
              /\ model'.selectedVer # model.selectedVer) =>
               /\ model.state = "mainStateSelectVersion"
               /\ listSelectedOk(model.list)
               /\ model'.selectedVer = UnderCursor
        /\ (~Pipeline /\ Pipeline') =>
               /\ model.state \in {"mainStateSelectVersion", "mainStateConfirmOverride"}
               /\ model.state = "mainStateSelectVersion" =>
                      listSelectedOk(model.list) /\ model'.version = UnderCursor
               /\ model.state = "mainStateConfirmOverride" =>
                      model.selectedVer # <<>> /\ model'.version = model.selectedVer

\* C27: in a session started without a version, handling a fetchedMsg
\* without an error leaves the orchestrator in SelectVersion with a list
\* that holds the version of every release of the catalog, in the
\* catalog's order, and starts nothing; the version of the session is only
\* ever set to the item under the cursor, by a key in SelectVersion; and
\* the pipeline is only started on that version, by that key or by the
\* override confirmation that follows it.
C27_NoVersionAsksUser == [][C27_Step]_vars

\* C27 witness: without a version given, the user moved to the second
\* release of the list and the pipeline was started on it.
C27_Witness ==
    /\ flagVersion = <<>>
    /\ Pipeline
    /\ Len(model.releases) = 2
    /\ model.releases[1].Version = Ver1
    /\ model.version = Ver2

\* the install command of the message exited with status zero and was
\* given the packages of every dependency in deps
Remedies(msg, distro, deps) ==
    /\ msg.err = Nil
    /\ msg.ran[Len(msg.ran)].ok
    /\ \A i \in 1..Len(deps) :
           /\ distro.name \in DOMAIN deps[i].packageName
           /\ deps[i].packageName[distro.name] # {}
           /\ deps[i].packageName[distro.name] \subseteq msg.ran[Len(msg.ran)].args

C28_Step ==
    dispatched'["fetchReleases"] > dispatched["fetchReleases"] =>
        /\ model.type = "mainModel"
        /\ handled'["checkDependencies"] = Nil
        /\ \/ /\ handled["checkDependencies"] = "pending"
              /\ model'.missingDeps = <<>>
           \/ /\ handled["installDependencies"] = "pending"
              /\ \E msg \in msgs :
                     /\ msg.type = "depsInstallMsg"
                     /\ Remedies(msg, model.distro, model.missingDeps)

\* C28: the fetch of the catalog is dispatched only by the step that
\* handles a dependency check that found nothing missing, or by the step
\* that handles the completion of an installation that succeeded and
\* installed the packages of every missing dependency; so never while
\* dependencies are known missing and not installed.
C28_FetchAfterDependencies == [][C28_Step]_vars

Done == Pipeline /\ model.state = "installStateDone"

\* the install root is as the session found it ("yes" was answered only
\* where /usr/local/go existed)
RootIntact ==
    /\ installDir \in {"absent", "old"}
    /\ "yes" \in answered => installDir = "old"

\* C29 as stated: a session that has ended without reaching Done has left
\* the install root as it found it (checked on the sessions that ended in
\* the Error state of the pipeline, the override never declined).
C29_AbortLeavesRootIntact ==
    (~running /\ Pipeline /\ InError /\ "no" \notin answered) => RootIntact

C29_Step == dispatched'["stepRemove"] = 0 => installDir' = installDir

\* C29, amended: as long as the removal step has not been dispatched no
\* step of the session changes the install root, so a session that fails
\* or is aborted before the removal step ends with the install root as it
\* found it.
C29_RootIntactBeforeRemoval ==
    /\ [][C29_Step]_vars
    /\ []((~running /\ dispatched["stepRemove"] = 0) => RootIntact)

\* C29 witness: the session over an existing installation has ended on a
\* failed verification, the removal was never dispatched and the old tree
\* is in place.
C29_Witness ==
    /\ ~running
    /\ Pipeline /\ InError
    /\ Failed("stepVerify")
    /\ dispatched["stepRemove"] = 0
    /\ "yes" \in answered
    /\ installDir = "old"

NoUnitWaiting ==
    \A u \in PipelineUnits : dispatched[u] > 0 => handled[u] # "pending"

\* every dispatched unit of the pipeline delivers its completion event: from
\* some point on no dispatched unit is waiting for it (a unit is dispatched
\* once, and an event that was handled stays handled)
UnitsDeliver == <>[]NoUnitWaiting

AllStepsSucceeded == \A u \in PipelineUnits : handled[u] = Nil

\* C30: in a session in which the pipeline was started and no quit key is
\* pressed, if every dispatched unit of the pipeline delivers its
\* completion event then the pipeline eventually is in Done or in Error;
\* and it is in Done exactly when the completion events of all five steps
\* were handled without an error.
C30_PipelineEnds ==
    /\ UnitsDeliver => <>(Pipeline /\ (Done \/ InError))
    /\ [](Pipeline => (Done <=> AllStepsSucceeded))

\* C30 witness: the session is over, all five steps succeeded and the
\* pipeline is in Done.
C30_Witness ==
    /\ ~running
    /\ Done
    /\ AllStepsSucceeded
    /\ installDir = "new"

\* C31: every run of installDependencies the user has accepted is for a
\* non-empty set of missing dependencies and gives the install command at
\* least one package, and the packages of every missing dependency,
\* whatever name detectDistro returned; so an outcome without an error is
\* never that of an install command run without packages.
C31_InstallNamesPackages ==
    \A msg \in msgs :
        msg.type = "depsInstallMsg" =>
            LET install == msg.ran[Len(msg.ran)] IN
            /\ model.type = "mainModel"
            /\ model.missingDeps # <<>>
            /\ install.args # {}
            /\ \A i \in 1..Len(model.missingDeps) :
                   /\ model.distro.name \in DOMAIN model.missingDeps[i].packageName
                   /\ model.missingDeps[i].packageName[model.distro.name] # {}
                   /\ model.missingDeps[i].packageName[model.distro.name]
                          \subseteq install.args

C32_Step ==
    \A msg \in msgs :
        (/\ msg.type = "fetchedMsg" /\ msg.err = Nil
         /\ handled["fetchReleases"] = "pending"
         /\ handled'["fetchReleases"] = Nil
         /\ flagVersion # <<>>
         /\ FindBuild(msg.releases, Requested, GetOS, GetArch).err # Nil) =>
            /\ model'.type = "mainModel"
            /\ model'.state = "mainStateSelectVersion"
            /\ model'.list = listNew(releaseTitles(msg.releases))
            /\ View(model').detail = releaseTitles(msg.releases)
            /\ model'.err = Nil
            /\ View(model').err = Nil
            /\ model' = [model EXCEPT !.releases = msg.releases,
                                      !.list = model'.list,
                                      !.state = model'.state]
            /\ cmds' = cmds
            /\ dispatched' = dispatched

\* C32: in a session started with a version, the step that handles an
\* error-free fetchedMsg whose catalog has no build for that version (the
\* version is absent, or present without an archive for the platform)
\* leaves the orchestrator in SelectVersion with a list of all releases of
\* the catalog, with no error in the model or on the screen, and with
\* nothing else changed than the catalog, the list and the state; it hands
\* no command to the runtime and dispatches nothing.
C32_FailedPreselectionAsksUser == [][C32_Step]_vars

\* C32 witness: the version given is in the catalog without an archive for
\* the platform, and the orchestrator asks for a version.
C32_Witness ==
    /\ flagVersion = <<"1">>
    /\ model.type = "mainModel"
    /\ model.state = "mainStateSelectVersion"
    /\ Fetched
    /\ Selection.err = ErrNoArchive
    /\ model.list.items = <<Ver1>>
    /\ model.err = Nil

\* the states of the orchestrator in which a unit of work is awaited
mainStateUnit(state) ==
    CASE state = "mainStateCheckingDeps" -> "checkDependencies"
      [] state = "mainStateInstallingDeps" -> "installDependencies"
      [] state = "mainStateFetching" -> "fetchReleases"
      [] OTHER -> ""

Awaiting == model.type = "mainModel" /\ mainStateUnit(model.state) # ""

C33_Step ==
    Awaiting =>
        /\ \A k \in Keys :
               Update(model, KeyMsg(k), Exists) = [m |-> model, cmd |-> NoCmd]
        /\ (model' # model \/ dispatched' # dispatched) =>
               /\ handled[mainStateUnit(model.state)] = "pending"
               /\ handled'[mainStateUnit(model.state)] # "pending"
               /\ \E msg \in msgs \ msgs' : UnitOf(msg) = mainStateUnit(model.state)

\* C33: while the orchestrator is in CheckingDeps, InstallingDeps or
\* Fetching, Update returns the model unchanged and no command for every
\* key, q and ctrl+c included; the model changes, and a unit is
\* dispatched, only in the step that handles the completion event of the
\* unit of work that state awaits.
C33_KeysIgnoredWhileWorking == [][C33_Step]_vars

\* C33 witness: the orchestrator has left InstallingDeps through the
\* completion event of the installation and awaits the fetch; no quit was
\* issued on the way.
C33_Witness ==
    /\ Awaiting
    /\ model.state = "mainStateFetching"
    /\ handled["installDependencies"] = Nil
    /\ handled["fetchReleases"] = "pending"
    /\ ~QuitIssued
    /\ running

====
